---- MODULE Spec2Model ----
(***************************************************************************)
(* AirLens (src/app.py): the multi-source pollutant resolution and AQI     *)
(* derivation pipeline of one render pass.                                 *)
(*                                                                         *)
(* Numbers.  Concentrations are integers in hundredths (12.1 is 1210), the *)
(* resolution of the values the resolver produces (round(mean, 2)); AQI    *)
(* values are integers.                                                    *)
(***************************************************************************)
EXTENDS Integers, Sequences, FiniteSets, TLC

VARIABLES
    pc,                 \* position of the render pass / of the function under test
    station_data,       \* which data the station API holds: "lean", "full" or "none"
    selected_location,  \* the location chosen in the select box (line 344)
    show_24h,           \* sidebar check box (line 311)
    use_adaptive,       \* sidebar check box (line 312)
    forecast_var,       \* sidebar slider (line 313)
    radii,              \* fetch_openaq_adaptive: the radii argument
    r_idx,              \* fetch_openaq_adaptive: position of the loop variable r in radii
    resp,               \* fetch_openaq_adaptive: what safe_get returned for the request in hand
    reqs,               \* fetch_openaq_adaptive: the requests it has issued so far, in order
    res,                \* line 357: raw result
    used_radius,        \* line 357
    parsed_measures,    \* line 357
    source_type,        \* line 357: "latest", "pseudo" or "None"
    polls,              \* line 363: key -> value
    live_flags,         \* line 364: key -> BOOLEAN
    EE_AVAILABLE,       \* lines 67-84: Earth Engine initialised
    ee_calls,           \* the Earth Engine queries made so far, in order, with what each gave
    weather,            \* line 416
    aod_val,            \* line 427
    aod_source,         \* line 427
    aqi_now,            \* line 434
    pm_history,         \* line 442
    pm24,               \* lines 459-464
    aqi24,              \* lines 462-465
    fn_in,              \* arguments of the pure function under test
    fn_out              \* its results (<<>> before the call)

fetch_vars == <<radii, r_idx, resp, reqs>>
result_vars == <<res, used_radius, parsed_measures, source_type>>
env_vars == <<station_data, EE_AVAILABLE>>
ui_vars == <<selected_location, show_24h, use_adaptive, forecast_var>>
reading_vars == <<polls, live_flags>>
sat_vars == <<ee_calls, aod_val, aod_source>>
forecast_vars == <<pm_history, pm24, aqi24>>
late_vars == <<weather, sat_vars, aqi_now, forecast_vars>>
fn_vars == <<fn_in, fn_out>>
vars == <<pc, env_vars, ui_vars, fetch_vars, result_vars, reading_vars, late_vars, fn_vars>>

(***************************************************************************)
(* Arithmetic helpers                                                      *)
(***************************************************************************)
\* Python's round(): n/d to the nearest integer, ties to the even one (d > 0).
RoundHalfEven(n, d) ==
    LET q == n \div d
        r == n % d
    IN  IF 2 * r < d THEN q
        ELSE IF 2 * r > d THEN q + 1
        ELSE IF q % 2 = 0 THEN q ELSE q + 1

(***************************************************************************)
(* Values.  A JSON / Python value is a record tagged by its type.  A       *)
(* string is the sequence of its characters.  A timestamp is an ISO-8601   *)
(* UTC string; it is represented by its age, the hundredths of an hour by  *)
(* which it precedes datetime.utcnow() of the render pass, so that the     *)
(* string order "later timestamp is greater" is "smaller age".             *)
(***************************************************************************)
Null == [t |-> "null"]
Num(n) == [t |-> "num", v |-> n]
Str(cs) == [t |-> "str", s |-> cs]
Time(a) == [t |-> "time", age |-> a]

\* Python truthiness of a value (if x: / not x / x or y).
Truthy(x) ==
    CASE x.t = "null" -> FALSE
      [] x.t = "num" -> x.v # 0
      [] x.t = "str" -> x.s # <<>>
      [] OTHER -> TRUE

Digits == <<"0", "1", "2", "3", "4", "5", "6", "7", "8", "9">>
UpperCase == <<"A", "B", "C", "D", "E", "F", "G", "H", "I", "J", "K", "L", "M",
               "N", "O", "P", "Q", "R", "S", "T", "U", "V", "W", "X", "Y", "Z">>
LowerCase == <<"a", "b", "c", "d", "e", "f", "g", "h", "i", "j", "k", "l", "m",
               "n", "o", "p", "q", "r", "s", "t", "u", "v", "w", "x", "y", "z">>
Range(f) == {f[i] : i \in DOMAIN f}
IsDigit(c) == c \in Range(Digits)
DigitVal(c) == (CHOOSE i \in DOMAIN Digits : Digits[i] = c) - 1

\* float(str): [sign] digits [. digits], to hundredths; anything else raises
\* ValueError (ok = FALSE).
RECURSIVE DigitsToInt(_)
DigitsToInt(cs) ==
    IF cs = <<>> THEN 0
    ELSE 10 * DigitsToInt(SubSeq(cs, 1, Len(cs) - 1)) + DigitVal(cs[Len(cs)])

ParseFloat(cs) ==
    LET signed == cs # <<>> /\ cs[1] \in {"-", "+"}
        body == IF signed THEN Tail(cs) ELSE cs
        dots == {i \in DOMAIN body : body[i] = "."}
        dot == IF dots = {} THEN Len(body) + 1 ELSE CHOOSE i \in dots : TRUE
        ip == SubSeq(body, 1, dot - 1)
        fp == SubSeq(body, dot + 1, Len(body))
        ok == /\ Cardinality(dots) <= 1
              /\ Len(ip) + Len(fp) >= 1
              /\ \A i \in DOMAIN ip : IsDigit(ip[i])
              /\ \A i \in DOMAIN fp : IsDigit(fp[i])
        fp2 == SubSeq(fp \o <<"0", "0">>, 1, 2)
        mag == 100 * DigitsToInt(ip) + DigitsToInt(fp2)
    IN  IF ok THEN [ok |-> TRUE, v |-> IF signed /\ cs[1] = "-" THEN 0 - mag ELSE mag]
        ELSE [ok |-> FALSE, v |-> 0]

\* float(x) of a value: [ok, v]; ok = FALSE stands for the exception raised.
float(x) ==
    CASE x.t = "num" -> [ok |-> TRUE, v |-> x.v]
      [] x.t = "str" -> ParseFloat(x.s)
      [] OTHER -> [ok |-> FALSE, v |-> 0]

(***************************************************************************)
(* AQI conversion, app.py 131-149                                          *)
(***************************************************************************)
\* EPA_BP: (pm_l, pm_h, a_l, a_h), concentrations in hundredths.
EPA_BP ==
    << <<0,     1200,  0,   50>>,
       <<1210,  3540,  51,  100>>,
       <<3550,  5540,  101, 150>>,
       <<5550,  15040, 151, 200>>,
       <<15050, 25040, 201, 300>>,
       <<25050, 35040, 301, 400>>,
       <<35050, 50040, 401, 500>> >>

\* Concentrations at which the interpolated value is an exact tie x.5 in the
\* reals but the double-precision product of line 147 lands just above it, so
\* that round() goes up where ties-to-even would go down.
FloatTieUp == {108, 156, 348, 444, 540, 636, 732, 924, 972, 1116, 1164, 34485}

\* InBand with the upper edge left out of the band.
InBand_open(pm, b) == b[1] <= pm /\ pm < b[2]

\* Line 146: the band test pm_l <= pm <= pm_h.
InBand(pm, b) == b[1] <= pm /\ pm <= b[2]

\* Lines 147-148: int(round(((a_h - a_l)/(pm_h - pm_l)) * (pm - pm_l) + a_l)).
Interpolate(pm, b) ==
    LET d == b[2] - b[1]
        n == (b[4] - b[3]) * (pm - b[1]) + b[3] * d
        q == n \div d
    IN  IF pm \in FloatTieUp /\ 2 * (n % d) = d THEN q + 1
        ELSE RoundHalfEven(n, d)

\* Lines 145-149: the first band that holds pm, else the sentinel 500.
BandAqi(pm) ==
    LET hits == {k \in 1..Len(EPA_BP) : InBand(pm, EPA_BP[k])}
    IN  IF hits = {} THEN 500
        ELSE Interpolate(pm, EPA_BP[CHOOSE k \in hits : \A m \in hits : k <= m])

\* Lines 140-149: None when float(pm) raises.
pm25_to_aqi(pm) ==
    IF float(pm).ok THEN Num(BandAqi(float(pm).v)) ELSE Null

(***************************************************************************)
(* normalize_label, app.py 122-128                                         *)
(***************************************************************************)
\* Line 125: str.lower on one character.  Besides A-Z one character outside
\* ASCII has an ASCII lower case: the Kelvin sign U+212A, written
\* "kelvin-sign" here, becomes "k".
lower(c) ==
    IF c \in Range(UpperCase)
    THEN LowerCase[CHOOSE i \in DOMAIN UpperCase : UpperCase[i] = c]
    ELSE IF c = "kelvin-sign" THEN "k"
    ELSE c

\* Line 126: the three subscript glyphs become ASCII digits.
replace_subscript(c) ==
    CASE c = "₂" -> "2"
      [] c = "₃" -> "3"
      [] c = "₅" -> "5"
      [] OTHER -> c

\* IsAlnumLower had the pattern of line 127 let the dot through
\* ([^a-z0-9.]): a sensitivity variant.
IsAlnumLower_dot(c) == c \in Range(LowerCase) \cup Range(Digits) \cup {"."}

\* Line 127: re.sub(r"[^a-z0-9]", "", s).
IsAlnumLower(c) == c \in Range(LowerCase) \cup Range(Digits)

normalize_label(lbl) ==
    IF lbl.t = "null" THEN <<>>
    ELSE LET s1 == [i \in DOMAIN lbl.s |-> replace_subscript(lower(lbl.s[i]))]
         IN  SelectSeq(s1, IsAlnumLower)

(***************************************************************************)
(* Bounds of the model                                                     *)
(***************************************************************************)
NumRadii == 3       \* radii of the default sequence that the adaptive sweep uses
MaxResults == 2     \* results in one response of the latest endpoint
MaxMeas == 2        \* measurements in one result of the latest endpoint
MaxRecs == 3        \* records in one response of the measurements endpoint

(***************************************************************************)
(* The station API as the resolver sees it                                 *)
(***************************************************************************)
\* Line 235, the default of radii, cut to its first NumRadii entries.
DefaultRadii == SubSeq(<<5000, 20000, 50000, 100000, 200000>>, 1, NumRadii)
\* Line 357, the radii passed when the adaptive box is not ticked.
FixedRadii == <<20000>>

NoResp == [status |-> "none"]

\* A response of the latest endpoint, as far as reading it can raise: every
\* result is a JSON object or something else, and so is every element of an
\* object's "measurements".  The field values of a measurement are read only
\* once a result is chosen and are drawn then.
LatestSlots == UNION {[1..k -> {"object", "other"}] : k \in 0..MaxMeas}
LatestEntries ==
    {[kind |-> "other", measurements |-> <<>>]} \cup
    {[kind |-> "object", measurements |-> ms] : ms \in LatestSlots}
LatestPayloads == UNION {[1..n -> LatestEntries] : n \in 0..MaxResults}
LatestOutcomes ==
    {[status |-> "timeout"], [status |-> "http_error"], [status |-> "not_json"]} \cup
    {[status |-> "ok", results |-> rs] : rs \in LatestPayloads}

DateOf(utc, local) == [t |-> "dict", utc |-> utc, local |-> local]
RawMeasure(p, v, d, u) == [parameter |-> p, value |-> v, date |-> d, lastUpdated |-> u]
\* What the station API may hold: measurements of the latest endpoint and
\* records of the measurements endpoint.
LatestRawMenu ==
    { RawMeasure(Str(<<"P", "M", "2", ".", "5">>), Num(3550), DateOf(Time(100), Null), Null),
      RawMeasure(Str(<<"p", "m", "2", "5">>), Str(<<"n", "/", "a">>), Null, Time(200)),
      RawMeasure(Str(<<"P", "M", "1", "0">>), Str(<<"4", "0", ".", "5">>), DateOf(Null, Time(300)), Null),
      RawMeasure(Str(<<"p", "m", "1", "0">>), Str(<<"h", "i", "g", "h">>), Null, Null),
      RawMeasure(Str(<<"N", "O", "₂">>), Null, Null, Null) }

\* A record of the measurements endpoint.
HistRecord(l, p, v, d, u) ==
    [kind |-> "object", location |-> l, parameter |-> p, value |-> v, date |-> d, lastUpdated |-> u]
HistMenu ==
    { HistRecord("A", Str(<<"p", "m", "2", "5">>), Num(1000), DateOf(Time(4800), Null), Null),
      HistRecord("A", Str(<<"p", "m", "2", "5">>), Num(2001), DateOf(Null, Time(4801)), Null),
      HistRecord("A", Str(<<"p", "m", "1", "0">>), Str(<<"h", "i", "g", "h">>), Null, Time(100)),
      HistRecord("B", Str(<<"p", "m", "2", "5">>), Num(5000), Null, Time(100)),
      HistRecord("B", Str(<<"p", "m", "1", "0">>), Num(3000), Null, Null),
      [kind |-> "other"] }
HistPayloads(menu) == UNION {[1..n -> menu] : n \in 0..MaxRecs}
HistOutcomes(menu) ==
    {[status |-> "timeout"], [status |-> "http_error"], [status |-> "not_json"]} \cup
    {[status |-> "ok", results |-> rs] : rs \in HistPayloads(menu)}

\* The station data of the render specification: a negative and a non-numeric
\* PM2.5 on the latest endpoint; one station and a malformed record on the
\* measurements endpoint.
LeanData ==
    [latest |-> { RawMeasure(Str(<<"P", "M", "2", ".", "5">>), Num(-250), DateOf(Time(100), Null), Null),
                  RawMeasure(Str(<<"p", "m", "2", "5">>), Str(<<"n", "/", "a">>), Null, Time(200)) },
     hist |-> { HistRecord("B", Str(<<"p", "m", "2", "5">>), Num(25050), Null, Time(100)),
                [kind |-> "other"] }]

\* The station data of the reading specification: everything in the menus.
FullData == [latest |-> LatestRawMenu, hist |-> HistMenu]

StationData == [lean |-> LeanData, full |-> FullData, none |-> [latest |-> {}, hist |-> {}]]

(***************************************************************************)
(* safe_get, app.py 114-120                                                *)
(***************************************************************************)
\* requests.get raising (timeout, connection) or raise_for_status raising gives
\* None; anything else is handed back.
safe_get(outcome) ==
    IF outcome.status \in {"timeout", "http_error"} THEN NoResp ELSE outcome

(***************************************************************************)
(* fetch_openaq_adaptive, app.py 235-305                                   *)
(***************************************************************************)
Min(S) == CHOOSE x \in S : \A y \in S : x <= y

\* Lines 254-258 and 289-293: date.utc or date.local, else lastUpdated.
MeasureTime(m) ==
    LET dt == IF m.date.t = "dict"
              THEN (IF Truthy(m.date.utc) THEN m.date.utc ELSE m.date.local)
              ELSE Null
    IN  IF ~Truthy(dt) THEN m.lastUpdated ELSE dt

\* Line 259.
ParseLatestMeasure(m) ==
    [parameter |-> m.parameter, value |-> m.value, lastUpdated |-> MeasureTime(m)]

\* LatestScan had it looked at the first result only (results[0] instead of
\* the loop of line 245): a sensitivity variant.
LatestScan_first(r) ==
    IF r.status = "not_json" THEN [what |-> "raise", at |-> 0]
    ELSE IF r.results = <<>> THEN [what |-> "nothing", at |-> 0]
    ELSE LET e == r.results[1]
         IN  IF e.kind # "object" THEN [what |-> "raise", at |-> 1]
             ELSE IF e.measurements = <<>> THEN [what |-> "nothing", at |-> 0]
             ELSE IF \A k \in DOMAIN e.measurements : e.measurements[k] = "object"
             THEN [what |-> "return", at |-> 1]
             ELSE [what |-> "raise", at |-> 1]

\* LatestScan had the loop of line 245 kept the last result with measurements
\* instead of returning at the first: a sensitivity variant.
LatestScan_last(r) ==
    IF r.status = "not_json" THEN [what |-> "raise", at |-> 0]
    ELSE LET bad == {i \in DOMAIN r.results :
                        \/ r.results[i].kind # "object"
                        \/ \E k \in DOMAIN r.results[i].measurements :
                              r.results[i].measurements[k] # "object"}
             full == {i \in DOMAIN r.results \ bad : r.results[i].measurements # <<>>}
         IN  IF bad # {} THEN [what |-> "raise", at |-> Min(bad)]
             ELSE IF full = {} THEN [what |-> "nothing", at |-> 0]
             ELSE [what |-> "return", at |-> CHOOSE i \in full : \A j \in full : j <= i]

\* Lines 245-262 on a response in hand: the results are walked in order; the
\* walk stops at the first one that is either not an object (res.get raises) or
\* has a non-empty measurement list.  [what, at]: "return" that result,
\* "raise" (the except of line 261) or "nothing".
LatestScan(r) ==
    IF r.status = "not_json" THEN [what |-> "raise", at |-> 0]
    ELSE LET stops == {i \in DOMAIN r.results :
                          \/ r.results[i].kind # "object"
                          \/ r.results[i].measurements # <<>>}
         IN  IF stops = {} THEN [what |-> "nothing", at |-> 0]
             ELSE LET i == Min(stops)
                      e == r.results[i]
                  IN  IF e.kind = "object" /\ \A k \in DOMAIN e.measurements : e.measurements[k] = "object"
                      THEN [what |-> "return", at |-> i]
                      ELSE [what |-> "raise", at |-> i]

RECURSIVE SumSeq(_)
SumSeq(xs) == IF xs = <<>> THEN 0 ELSE Head(xs) + SumSeq(Tail(xs))

\* The distinct elements of ks in the order of their first occurrence (the
\* iteration order of a dict whose keys were inserted in the order of ks).
FirstSeen(ks) ==
    LET firsts == {i \in DOMAIN ks : \A j \in 1..(i - 1) : ks[j] # ks[i]}
        nth(n) == CHOOSE i \in firsts : Cardinality({j \in firsts : j <= i}) = n
    IN  [n \in 1..Cardinality(firsts) |-> ks[nth(n)]]

LocationOf(m) == m.location
ParameterOf(m) == m.parameter

\* BestLoc had line 280 taken the station of the first record instead of the
\* one with the most records: a sensitivity variant.
BestLoc_first(meas) == LocationOf(meas[1])

\* Lines 273-280: group by location, take the first location (in order of
\* first occurrence) among those with the most records.
BestLoc(meas) ==
    LET locs == FirstSeen([i \in DOMAIN meas |-> LocationOf(meas[i])])
        count(l) == Cardinality({i \in DOMAIN meas : meas[i].location = l})
        best == Min({i \in DOMAIN locs : \A j \in DOMAIN locs : count(locs[j]) <= count(locs[i])})
    IN  locs[best]

\* Line 287: the samples of a station that count.
Counted(m) == Truthy(m.parameter) /\ m.value.t = "num"

\* Lines 294-296: the greatest timestamp string among the samples that have one.
LatestTs(ms) ==
    LET ts == {MeasureTime(ms[i]) : i \in DOMAIN ms}
        some == {x \in ts : Truthy(x)}
    IN  IF some = {} THEN Null
        ELSE CHOOSE x \in some : \A y \in some : x.age <= y.age

\* Lines 297-300: per parameter, round(float(np.mean(arr)), 2).
PseudoMeasure(p, ms) ==
    LET vals == [i \in DOMAIN ms |-> ms[i].value.v]
    IN  [parameter |-> p,
         value |-> Num(RoundHalfEven(SumSeq(vals), Len(vals))),
         lastUpdated |-> LatestTs(ms)]

\* Lines 281-300 on the records of the chosen station.
PseudoParse(meas) ==
    LET HasLoc(m) == m.location = BestLoc(meas)
        best == SelectSeq(meas, HasLoc)
        seen == SelectSeq(best, Counted)
        params == FirstSeen([i \in DOMAIN seen |-> ParameterOf(seen[i])])
    IN  [i \in DOMAIN params |->
            LET HasParam(m) == m.parameter = params[i]
            IN  PseudoMeasure(params[i], SelectSeq(seen, HasParam))]

\* Lines 270-304 on a response in hand.
HistScan(r) ==
    IF r.status = "not_json" THEN "raise"
    ELSE IF r.results = <<>> THEN "nothing"
    ELSE IF \E i \in DOMAIN r.results : r.results[i].kind # "object" THEN "raise"
    ELSE "return"

\* Lines 241-242: the request of the latest sweep for radii[r_idx].
SendLatest ==
    /\ pc = "latest"
    /\ \E o \in LatestOutcomes : resp' = safe_get(o)
    /\ reqs' = Append(reqs, <<"latest", radii[r_idx]>>)
    /\ pc' = "latest_resp"
    /\ UNCHANGED <<radii, r_idx, env_vars, ui_vars, result_vars, reading_vars, late_vars, fn_vars>>

\* NextRadius had the loops ended on break instead of continue: the resolver
\* gives up at the first radius without data.  A sensitivity variant.
NextRadius_abort(sweep, after) ==
    /\ resp' = NoResp
    /\ r_idx' = 0
    /\ pc' = "complete"
    /\ UNCHANGED <<radii, reqs, env_vars, ui_vars, result_vars, reading_vars, late_vars, fn_vars>>

\* NextRadius had the loops stepped over every other radius: a sensitivity
\* variant.
NextRadius_skip(sweep, after) ==
    /\ resp' = NoResp
    /\ IF r_idx + 1 < Len(radii)
       THEN r_idx' = r_idx + 2 /\ pc' = sweep
       ELSE r_idx' = 1 /\ pc' = after
    /\ UNCHANGED <<radii, reqs, env_vars, ui_vars, result_vars, reading_vars, late_vars, fn_vars>>

\* continue (lines 244, 262) and the fall out of the first loop into the second.
NextRadius(sweep, after) ==
    /\ resp' = NoResp
    /\ IF r_idx < Len(radii)
       THEN r_idx' = r_idx + 1 /\ pc' = sweep
       ELSE r_idx' = 1 /\ pc' = after
    /\ UNCHANGED <<radii, reqs, env_vars, ui_vars, result_vars, reading_vars, late_vars, fn_vars>>

\* Lines 243-262: the response of the latest sweep.
RecvLatest ==
    /\ pc = "latest_resp"
    /\ IF resp = NoResp \/ LatestScan(resp).what # "return"
       THEN NextRadius("latest", "meas")
       ELSE LET e == resp.results[LatestScan(resp).at]
            IN  /\ \E raw \in [DOMAIN e.measurements -> StationData[station_data].latest] :
                      /\ res' = [measurements |-> raw]
                      /\ parsed_measures' = [i \in DOMAIN raw |-> ParseLatestMeasure(raw[i])]
                /\ used_radius' = Num(radii[r_idx])
                /\ source_type' = "latest"
                /\ pc' = "complete"
                /\ resp' = NoResp
                /\ r_idx' = 0
                /\ UNCHANGED <<radii, reqs, env_vars, ui_vars, reading_vars, late_vars, fn_vars>>

\* Lines 266-267: the request of the historical sweep for radii[r_idx].
SendMeas ==
    /\ pc = "meas"
    /\ \E o \in HistOutcomes(StationData[station_data].hist) : resp' = safe_get(o)
    /\ reqs' = Append(reqs, <<"measurements", radii[r_idx]>>)
    /\ pc' = "meas_resp"
    /\ UNCHANGED <<radii, r_idx, env_vars, ui_vars, result_vars, reading_vars, late_vars, fn_vars>>

\* ReturnEmpty had line 305 handed back the loop variable r, the last radius
\* asked (return None, r, [], None): a sensitivity variant.
ReturnEmpty_radius ==
    /\ resp' = NoResp
    /\ r_idx' = 0
    /\ pc' = "complete"
    /\ used_radius' = Num(radii[Len(radii)])
    /\ UNCHANGED <<radii, reqs, env_vars, ui_vars, res, parsed_measures, source_type,
                   reading_vars, late_vars, fn_vars>>

\* Line 305: both sweeps are through.
ReturnEmpty ==
    /\ resp' = NoResp
    /\ r_idx' = 0
    /\ pc' = "complete"
    /\ UNCHANGED <<radii, reqs, env_vars, ui_vars, result_vars, reading_vars, late_vars, fn_vars>>

\* Lines 268-305: the response of the historical sweep.
RecvMeas ==
    /\ pc = "meas_resp"
    /\ IF resp = NoResp \/ HistScan(resp) # "return"
       THEN IF r_idx < Len(radii) THEN NextRadius("meas", "meas") ELSE ReturnEmpty
       ELSE /\ res' = [location |-> BestLoc(resp.results), measurements |-> PseudoParse(resp.results)]
            /\ parsed_measures' = PseudoParse(resp.results)
            /\ used_radius' = Num(radii[r_idx])
            /\ source_type' = "pseudo"
            /\ pc' = "complete"
            /\ resp' = NoResp
            /\ r_idx' = 0
            /\ UNCHANGED <<radii, reqs, env_vars, ui_vars, reading_vars, late_vars, fn_vars>>

(***************************************************************************)
(* Pollutant completion, app.py 359-413                                    *)
(***************************************************************************)
Keys == {"pm25", "pm10", "no2", "so2", "o3", "co"}
OtherKeys == Keys \ {"pm25"}

\* The keys of polls as character sequences, for "key in polls" (line 371).
KeyChars ==
    [pm25 |-> <<"p", "m", "2", "5">>, pm10 |-> <<"p", "m", "1", "0">>,
     no2 |-> <<"n", "o", "2">>, so2 |-> <<"s", "o", "2">>,
     o3 |-> <<"o", "3">>, co |-> <<"c", "o">>]

\* Lines 363-364.
NoPolls == [k \in Keys |-> Null]
NoFlags == [k \in Keys |-> FALSE]

\* Line 381: the name iso_to_dt is bound nowhere in app.py (no def, no import),
\* so the call raises NameError whatever ts is; ok = FALSE stands for the raise.
iso_to_dt(ts) == [ok |-> FALSE, v |-> ts]

\* Lines 379-390: the flag of a key in mode "pseudo".  age_hr <= 48.0 is
\* age <= 4800 hundredths of an hour; the bare except of line 387 gives False.
PseudoLive(ts) ==
    IF Truthy(ts)
    THEN LET dtt == iso_to_dt(ts)
         IN  IF ~dtt.ok THEN FALSE
             ELSE IF Truthy(dtt.v) THEN dtt.v.age <= 4800 ELSE FALSE
    ELSE FALSE

\* Lines 372-375: float(val), or val itself when float raises.
StoredValue(val) == IF float(val).ok THEN Num(float(val).v) ELSE val

\* Lines 368-390 for one measurement m, on the reading rd = [polls, live_flags].
StoreMeasure(rd, m, mode) ==
    LET key == normalize_label(m.parameter)
        hit == {k \in Keys : KeyChars[k] = key}
    IN  IF hit # {} /\ m.value.t # "null"
        THEN LET k == CHOOSE x \in hit : TRUE
             IN  [polls |-> [rd.polls EXCEPT ![k] = StoredValue(m.value)],
                  live_flags |->
                      IF mode = "latest" THEN [rd.live_flags EXCEPT ![k] = TRUE]
                      ELSE IF mode = "pseudo"
                      THEN [rd.live_flags EXCEPT ![k] = PseudoLive(m.lastUpdated)]
                      ELSE rd.live_flags]
        ELSE rd

\* Lines 366-390: the measurements in order.
RECURSIVE StoreMeasures(_, _, _)
StoreMeasures(rd, ms, mode) ==
    IF ms = <<>> THEN rd
    ELSE StoreMeasures(StoreMeasure(rd, Head(ms), mode), Tail(ms), mode)

\* |sin(lat/12)| in millionths for the latitudes of LOCATIONS (math.sin of
\* lines 399 and 402).
AbsSinLat12 == [Muweilah |-> 856488, London |-> 913046]

\* GeoBaseline with the factor of line 399 on both lines: a sensitivity variant.
GeoBaseline_fifteen(loc, factor) ==
    Num(10 * RoundHalfEven(50 * 1000000 + AbsSinLat12[loc] * 15 * 10, 1000000))

\* Lines 399 and 402: round(5 + abs(math.sin(lat/12.0)) * factor, 1).
GeoBaseline(loc, factor) ==
    Num(10 * RoundHalfEven(50 * 1000000 + AbsSinLat12[loc] * factor * 10, 1000000))

\* FallbackPm25 without the geographic baseline of lines 399 and 402 (PM2.5
\* from PM10 only): a sensitivity variant.
FallbackPm25_nobaseline(rd, loc) ==
    IF rd.polls["pm25"].t # "null" THEN rd
    ELSE LET pm10 == rd.polls["pm10"]
         IN  IF pm10.t # "null" /\ float(pm10).ok
             THEN [polls |-> [rd.polls EXCEPT !["pm25"] = Num(10 * RoundHalfEven(float(pm10).v * 6, 100))],
                   live_flags |-> [rd.live_flags EXCEPT !["pm25"] = FALSE]]
             ELSE rd

\* FallbackPm25 without the assignments of lines 396, 399 and 402: a PM2.5
\* derived from PM10 takes over the flag of PM10.  A sensitivity variant.
FallbackPm25_inherit(rd, loc) ==
    IF rd.polls["pm25"].t # "null" THEN rd
    ELSE LET pm10 == rd.polls["pm10"]
             v == IF pm10.t # "null"
                  THEN IF float(pm10).ok
                       THEN Num(10 * RoundHalfEven(float(pm10).v * 6, 100))
                       ELSE GeoBaseline(loc, 15)
                  ELSE GeoBaseline(loc, 10)
         IN  [polls |-> [rd.polls EXCEPT !["pm25"] = v],
              live_flags |-> [rd.live_flags EXCEPT !["pm25"] = rd.live_flags["pm10"]]]

\* Lines 393-403: PM2.5 when no measurement gave it.
FallbackPm25(rd, loc) ==
    IF rd.polls["pm25"].t # "null" THEN rd
    ELSE LET pm10 == rd.polls["pm10"]
             v == IF pm10.t # "null"
                  THEN IF float(pm10).ok
                       THEN Num(10 * RoundHalfEven(float(pm10).v * 6, 100))
                       ELSE GeoBaseline(loc, 15)
                  ELSE GeoBaseline(loc, 10)
         IN  [polls |-> [rd.polls EXCEPT !["pm25"] = v],
              live_flags |-> [rd.live_flags EXCEPT !["pm25"] = FALSE]]

\* np.random.uniform(0.6, 1.4) of line 409 in hundredths: the two ends of the
\* interval.
Multipliers == {60, 140}

\* Line 409: round(max(0.1, float(polls["pm25"]) * u), 1), u in hundredths.
Jittered(pm25, u) ==
    LET x == pm25 * u
        m == IF x < 1000 THEN 1000 ELSE x
    IN  Num(10 * RoundHalfEven(m, 1000))

\* Line 412: the one-character string U+2014 (em dash).
Dash == Str(<<"em-dash">>)

\* FallbackOthers had the loop of line 405 taken a PM2.5 without live flag for
\* a missing value too, redrawn with the draw of a missing key: a sensitivity
\* variant.
FallbackOthers_pm25(rd, u) ==
    LET pm25 == float(rd.polls["pm25"])
        missing == {k \in OtherKeys : rd.polls[k].t = "null"}
        redrawn == pm25.ok /\ ~rd.live_flags["pm25"] /\ missing # {}
    IN  [polls |-> [k \in Keys |->
                       IF k \in missing
                       THEN IF pm25.ok THEN Jittered(pm25.v, u[k]) ELSE Dash
                       ELSE IF k = "pm25" /\ redrawn
                       THEN Jittered(pm25.v, u[CHOOSE j \in missing : TRUE])
                       ELSE rd.polls[k]],
         live_flags |-> [k \in Keys |-> IF k \in missing THEN FALSE ELSE rd.live_flags[k]]]

\* Lines 405-413: every other key that is still None; u[k] is the draw for k.
FallbackOthers(rd, u) ==
    LET pm25 == float(rd.polls["pm25"])
        missing == {k \in OtherKeys : rd.polls[k].t = "null"}
    IN  [polls |-> [k \in Keys |->
                       IF k \in missing
                       THEN IF pm25.ok THEN Jittered(pm25.v, u[k]) ELSE Dash
                       ELSE rd.polls[k]],
         live_flags |-> [k \in Keys |-> IF k \in missing THEN FALSE ELSE rd.live_flags[k]]]

\* Lines 363-403.
ResolveReading(ms, mode, loc) ==
    FallbackPm25(StoreMeasures([polls |-> NoPolls, live_flags |-> NoFlags], ms, mode), loc)

EmptyDict == [t |-> "dict"]

\* Lines 359-413 of the script, with the draws of line 409.
Complete ==
    /\ pc = "complete"
    /\ res' = IF res = Null THEN EmptyDict ELSE res
    /\ LET rd0 == ResolveReading(parsed_measures, source_type, selected_location)
           missing == {k \in OtherKeys : rd0.polls[k].t = "null"}
       IN  \E u \in [missing -> Multipliers] :
              LET rd == FallbackOthers(rd0, u)
              IN  /\ polls' = rd.polls
                  /\ live_flags' = rd.live_flags
    /\ pc' = "weather"
    /\ UNCHANGED <<env_vars, ui_vars, fetch_vars, used_radius, parsed_measures, source_type, late_vars, fn_vars>>

(***************************************************************************)
(* Weather, app.py 415-424                                                 *)
(***************************************************************************)
\* What Open-Meteo may answer: no answer, a body that is not JSON, a
\* current_weather that is not an object, or one with its three fields
\* (hundredths).
WeatherOutcomes ==
    { [status |-> "timeout"], [status |-> "http_error"], [status |-> "not_json"],
      [status |-> "ok", current_weather |-> [kind |-> "other"]],
      [status |-> "ok", current_weather |->
          [kind |-> "object", temperature |-> Num(3120), windspeed |-> Num(1450),
           winddirection |-> Num(27000)]] }

\* Lines 418-424 on what safe_get returned.
ReadWeather(wr) ==
    IF wr = NoResp THEN Null
    ELSE IF wr.status = "not_json" THEN Null
    ELSE IF wr.current_weather.kind # "object" THEN Null
    ELSE [temp |-> wr.current_weather.temperature,
          windspeed |-> wr.current_weather.windspeed,
          winddir |-> wr.current_weather.winddirection]

Weather ==
    /\ pc = "weather"
    /\ \E o \in WeatherOutcomes : weather' = ReadWeather(safe_get(o))
    /\ pc' = "satellite"
    /\ UNCHANGED <<env_vars, ui_vars, fetch_vars, result_vars, reading_vars, sat_vars,
                   aqi_now, forecast_vars, fn_vars>>

(***************************************************************************)
(* Satellite proxy, app.py 173-230 and 426-431.  A trace-gas column is in  *)
(* units of 1e14 molecules/cm2 (2e16 is 200); an aerosol depth and the     *)
(* proxy are in thousandths.                                               *)
(***************************************************************************)
\* What one Earth Engine query may give: an exception (auth, quota, network,
\* missing collection), no sample, or a value.
TempoOutcomes ==
    { [what |-> "raise"], [what |-> "none"],
      [what |-> "value", v |-> Num(200)], [what |-> "value", v |-> Num(-10)] }
ModisOutcomes ==
    { [what |-> "raise"], [what |-> "none"],
      [what |-> "value", v |-> Num(500)], [what |-> "value", v |-> Num(2000)],
      [what |-> "value", v |-> Num(-50)] }

\* np.clip(x, lo, hi).
Clip(x, lo, hi) == IF x < lo THEN lo ELSE IF x > hi THEN hi ELSE x

\* Lines 173-189: the value, or None on any exception, on a missing sample and
\* when Earth Engine is not available.
get_tempo_no2_via_ee(ee, o) ==
    IF ~ee THEN Null
    ELSE IF o.what = "value" THEN o.v
    ELSE Null

\* Lines 191-205: likewise.
get_modis_aod_via_ee(ee, o) ==
    IF ~ee THEN Null
    ELSE IF o.what = "value" THEN o.v
    ELSE Null

\* tempo_to_aod_proxy_from_no2 without the np.clip of line 210: a sensitivity
\* variant.
tempo_to_aod_proxy_unclipped(no2_col) ==
    IF float(no2_col).ok THEN Num(float(no2_col).v * 10) ELSE Null

\* Lines 207-212: float(no2_col) / 1e16 clipped to [0.03, 1.0].
tempo_to_aod_proxy_from_no2(no2_col) ==
    IF float(no2_col).ok THEN Num(Clip(float(no2_col).v * 10, 30, 1000)) ELSE Null

\* One Earth Engine query that was made, with what it gave (Null: nothing).
Query(q, got) == [query |-> q, got |-> got]

\* fetch_satellite_proxy had it made both queries before looking at either
\* result: a sensitivity variant.
fetch_satellite_proxy_both(ee, to, mo) ==
    LET no2 == get_tempo_no2_via_ee(ee, to)
        proxy == tempo_to_aod_proxy_from_no2(no2)
        mod == get_modis_aod_via_ee(ee, mo)
        both == <<Query("tempo", no2), Query("modis", mod)>>
    IN  IF ~ee THEN [val |-> Null, source |-> [tag |-> "DEMO_FALLBACK"], calls |-> <<>>]
        ELSE IF no2 # Null /\ proxy # Null
        THEN [val |-> proxy, source |-> [tag |-> "TEMPO_NO2", raw |-> no2], calls |-> both]
        ELSE IF mod # Null
        THEN [val |-> Num(Clip(mod.v, 30, 1000)), source |-> [tag |-> "MODIS_AOD", raw |-> mod],
              calls |-> both]
        ELSE [val |-> Null, source |-> [tag |-> "DEMO_FALLBACK"], calls |-> both]

\* Lines 214-230: [val, source, calls], calls being the queries made.  to and
\* mo are what the two queries give if they are made.
fetch_satellite_proxy(ee, to, mo) ==
    LET no2 == get_tempo_no2_via_ee(ee, to)
        proxy == tempo_to_aod_proxy_from_no2(no2)
        mod == get_modis_aod_via_ee(ee, mo)
    IN  IF ~ee THEN [val |-> Null, source |-> [tag |-> "DEMO_FALLBACK"], calls |-> <<>>]
        ELSE IF no2 # Null /\ proxy # Null
        THEN [val |-> proxy, source |-> [tag |-> "TEMPO_NO2", raw |-> no2],
              calls |-> <<Query("tempo", no2)>>]
        ELSE IF mod # Null
        THEN [val |-> Num(Clip(mod.v, 30, 1000)), source |-> [tag |-> "MODIS_AOD", raw |-> mod],
              calls |-> <<Query("tempo", no2), Query("modis", mod)>>]
        ELSE [val |-> Null, source |-> [tag |-> "DEMO_FALLBACK"],
              calls |-> <<Query("tempo", no2), Query("modis", mod)>>]

\* Line 429: np.clip(float(pm25) / 150.0, 0.03, 1.0), to the nearest thousandth.
Pm25Proxy(pm25) == Num(Clip(RoundHalfEven(pm25 * 10, 150), 30, 1000))

\* Lines 427-431.  float(polls["pm25"]) of line 429 is outside any try: when it
\* raises the script ends there.
Satellite ==
    /\ pc = "satellite"
    /\ \E to \in TempoOutcomes, mo \in ModisOutcomes :
          LET sat == fetch_satellite_proxy(EE_AVAILABLE, to, mo)
          IN  /\ ee_calls' = sat.calls
              /\ IF sat.val # Null
                 THEN aod_val' = sat.val /\ aod_source' = sat.source /\ pc' = "aqi"
                 ELSE IF float(polls["pm25"]).ok
                 THEN /\ aod_val' = Pm25Proxy(float(polls["pm25"]).v)
                      /\ aod_source' = IF sat.source.tag = "DEMO_FALLBACK"
                                       THEN [tag |-> "PM2.5_proxy"] ELSE sat.source
                      /\ pc' = "aqi"
                 ELSE /\ aod_val' = Null
                      /\ aod_source' = sat.source
                      /\ pc' = "crashed"
    /\ UNCHANGED <<env_vars, ui_vars, fetch_vars, result_vars, reading_vars, weather,
                   aqi_now, forecast_vars, fn_vars>>

(***************************************************************************)
(* AQI of the pass, app.py 433-439                                         *)
(***************************************************************************)
\* Lines 434-439: pm25_to_aqi, else int(min(500, float(pm25) * 4)), else 0.
AqiNow(pm25) ==
    IF pm25_to_aqi(pm25) # Null THEN pm25_to_aqi(pm25)
    ELSE IF float(pm25).ok
    THEN Num(IF float(pm25).v * 4 > 50000 THEN 500 ELSE (float(pm25).v * 4) \div 100)
    ELSE Num(0)

ComputeAqi ==
    /\ pc = "aqi"
    /\ aqi_now' = AqiNow(polls["pm25"])
    /\ pc' = "history"
    /\ UNCHANGED <<env_vars, ui_vars, fetch_vars, result_vars, reading_vars, weather,
                   sat_vars, forecast_vars, fn_vars>>

(***************************************************************************)
(* PM2.5 history, app.py 441-453                                           *)
(***************************************************************************)
HistoryItem(p, v) == [kind |-> "object", parameter |-> p, value |-> v]

\* What the measurements endpoint may answer to the history request: six
\* rising PM2.5 samples, six negative ones, a short mixed list with an item
\* that is no object, nothing.
HistoryPayloads ==
    { <<>>,
      [i \in 1..6 |-> HistoryItem(Str(<<"p", "m", "2", "5">>), Num(900 + 100 * i))],
      [i \in 1..6 |-> HistoryItem(Str(<<"P", "M", "2", ".", "5">>), Num(100 * i - 700))],
      << HistoryItem(Str(<<"p", "m", "2", "5">>), Num(1200)),
         HistoryItem(Str(<<"p", "m", "1", "0">>), Num(3000)),
         HistoryItem(Str(<<"p", "m", "2", "5">>), Str(<<"1", "3">>)) >>,
      << HistoryItem(Str(<<"p", "m", "2", "5">>), Num(1200)), [kind |-> "other"] >> }
HistoryOutcomes ==
    {[status |-> "timeout"], [status |-> "http_error"], [status |-> "not_json"]} \cup
    {[status |-> "ok", results |-> rs] : rs \in HistoryPayloads}

\* Lines 447-451: the numbers among the PM2.5 items.
IsPm25Sample(item) ==
    normalize_label(item.parameter) = KeyChars["pm25"] /\ item.value.t = "num"

\* Lines 443-453 on what safe_get returned; any exception empties the list.
ReadHistory(mr) ==
    IF mr = NoResp THEN <<>>
    ELSE IF mr.status = "not_json" THEN <<>>
    ELSE IF \E i \in DOMAIN mr.results : mr.results[i].kind # "object" THEN <<>>
    ELSE LET kept == SelectSeq(mr.results, IsPm25Sample)
         IN  [i \in DOMAIN kept |-> kept[i].value.v]

History ==
    /\ pc = "history"
    /\ \E o \in HistoryOutcomes : pm_history' = ReadHistory(safe_get(o))
    /\ pc' = "forecast"
    /\ UNCHANGED <<env_vars, ui_vars, fetch_vars, result_vars, reading_vars,
                   weather, sat_vars, aqi_now, pm24, aqi24, fn_vars>>

(***************************************************************************)
(* Forecast, app.py 156-163 and 455-465.  Inside the generators a          *)
(* concentration is in units of 1e-4; a standard normal draw is in tenths. *)
(***************************************************************************)
\* Line 313: positions of the variance slider (1..8) that are tried.
ForecastVars == {3}

\* The i-th standard normal draw of np.random.default_rng(seed): a fixed
\* function of seed and i.  numpy's stream is stood in for by a fixed table of
\* draws between -3.0 and 3.0.
StdNormal(seed, i) == ((seed * 7 + i * 13) % 61) - 30

\* The draws of the unseeded np.random.normal of line 459 that are tried: the
\* same draw at every hour, three sigma either way or none.
NoiseLevels == {-30, 0, 30}

\* round(x, 1) of a concentration x in 1e-4, in hundredths.
Round1(x) == 10 * RoundHalfEven(x, 1000)

\* max(0.1, x) of lines 161 and 459.
Floor01(x) == IF x < 1000 THEN 1000 ELSE x

\* Lines 160-162: the walk from hour i on; last is the unrounded value.
RECURSIVE Walk(_, _, _, _, _)
Walk(last, i, hours, seed, scale) ==
    IF i > hours THEN <<>>
    ELSE LET nxt == Floor01(last + (scale * StdNormal(seed, i)) \div 10)
         IN  <<Round1(nxt)>> \o Walk(nxt, i + 1, hours, seed, scale)

\* Lines 156-163; pm in hundredths, variance in hundredths (forecast_var).
\* The seed is int((pm * 100) % 10000), the step max(0.2, pm * variance).
hourly_forecast_pm(pm, hours, variance) ==
    LET scale == IF pm * variance < 2000 THEN 2000 ELSE pm * variance
    IN  Walk(100 * pm, 1, hours, pm % 10000, scale)

\* Lines 457-459: trend projection from the last sample; z is the draw.
TrendForecast(hist, z) ==
    LET base == 100 * hist[Len(hist)]
        span == IF Len(hist) - 1 < 1 THEN 1 ELSE Len(hist) - 1
        rise == 100 * (hist[Len(hist)] - hist[1])
    IN  [i \in 1..24 |->
            Round1(Floor01(base + (rise * i) \div span + (z * base) \div 500))]

\* RunForecast with the trend projection taken from three samples on
\* (len(pm_history) >= 3 at line 456): a sensitivity variant.
RunForecast_three(hist, pm25, variance, z) ==
    IF Len(hist) >= 3
    THEN IF hist[Len(hist)] < 0 THEN [what |-> "raise", pm24 |-> <<>>]
         ELSE [what |-> "ok", pm24 |-> TrendForecast(hist, z)]
    ELSE IF ~float(pm25).ok THEN [what |-> "raise", pm24 |-> <<>>]
    ELSE [what |-> "ok", pm24 |-> hourly_forecast_pm(float(pm25).v, 24, variance)]

\* Lines 456-462 for a forecast that is asked for: [what, pm24], what being
\* "ok" or "raise".  Two calls are outside any try: np.random.normal raises
\* ValueError on a negative scale (base * 0.02 with a negative last sample), and
\* float(current_pm) raises on a PM2.5 that is no number.  z is the draw of
\* line 459, variance the slider position.
RunForecast(hist, pm25, variance, z) ==
    IF Len(hist) >= 6
    THEN IF hist[Len(hist)] < 0 THEN [what |-> "raise", pm24 |-> <<>>]
         ELSE [what |-> "ok", pm24 |-> TrendForecast(hist, z)]
    ELSE IF ~float(pm25).ok THEN [what |-> "raise", pm24 |-> <<>>]
    ELSE [what |-> "ok", pm24 |-> hourly_forecast_pm(float(pm25).v, 24, variance)]

\* The draws of line 459 that are tried: none is made unless line 459 runs.
DrawsFor(hist) ==
    IF Len(hist) >= 6 /\ hist[Len(hist)] >= 0 THEN NoiseLevels ELSE {0}

\* Lines 455-465; an exception of lines 459 or 461 ends the script.
Forecast ==
    /\ pc = "forecast"
    /\ IF ~show_24h
       THEN pm24' = <<>> /\ aqi24' = <<>> /\ pc' = "done"
       ELSE \E z \in DrawsFor(pm_history) :
               LET run == RunForecast(pm_history, polls["pm25"], forecast_var, z)
               IN  IF run.what = "raise"
                   THEN pc' = "crashed" /\ UNCHANGED <<pm24, aqi24>>
                   ELSE /\ pm24' = run.pm24
                        /\ aqi24' = [i \in 1..24 |-> pm25_to_aqi(Num(run.pm24[i]))]
                        /\ pc' = "done"
    /\ UNCHANGED <<env_vars, ui_vars, fetch_vars, result_vars, reading_vars,
                   weather, sat_vars, aqi_now, pm_history, fn_vars>>

(***************************************************************************)
(* One render pass, app.py 357-465                                         *)
(***************************************************************************)
\* Lines 331-345, two of the locations of the select box with their latitude
\* in thousandths of a degree.
LOCATIONS == [Muweilah |-> 25358, London |-> 51507]

NoCall == <<>>

\* Nothing after the completion block has run.
NothingLate ==
    /\ ee_calls = <<>>
    /\ weather = Null
    /\ aod_val = Null
    /\ aod_source = Null
    /\ aqi_now = Null
    /\ pm_history = <<>>
    /\ pm24 = <<>>
    /\ aqi24 = <<>>

\* The script starts: the widgets are read, fetch_openaq_adaptive is entered
\* (line 357) with nothing resolved yet.
Start ==
    /\ pc = "latest"
    /\ selected_location \in DOMAIN LOCATIONS
    /\ show_24h \in BOOLEAN
    /\ use_adaptive \in BOOLEAN
    /\ forecast_var \in ForecastVars
    /\ radii = IF use_adaptive THEN DefaultRadii ELSE FixedRadii
    /\ r_idx = 1
    /\ resp = NoResp
    /\ reqs = <<>>
    /\ res = Null
    /\ used_radius = Null
    /\ parsed_measures = <<>>
    /\ source_type = "None"
    /\ polls = NoPolls
    /\ live_flags = NoFlags
    /\ EE_AVAILABLE \in BOOLEAN
    /\ NothingLate
    /\ fn_in = NoCall
    /\ fn_out = NoCall

\* A render pass for the default location, with the lean station data.
Init == Start /\ station_data = "lean" /\ selected_location = "Muweilah"

Next ==
    \/ SendLatest
    \/ RecvLatest
    \/ SendMeas
    \/ RecvMeas
    \/ Complete
    \/ Weather
    \/ Satellite
    \/ ComputeAqi
    \/ History
    \/ Forecast

Spec == Init /\ [][Next]_vars

(***************************************************************************)
(* pm25_to_aqi on its own                                                  *)
(***************************************************************************)
AqiMargin == 2      \* hundredths looked at on either side of every band edge

\* The concentrations tried: the edges of the bands and their neighbours, the
\* ties of FloatTieUp, and the middle of every band.
AqiGrid ==
    UNION {{EPA_BP[k][1] + d, EPA_BP[k][2] + d, (EPA_BP[k][1] + EPA_BP[k][2]) \div 2} :
              k \in DOMAIN EPA_BP, d \in (0 - AqiMargin)..AqiMargin}
    \cup FloatTieUp

\* Nothing of a render pass is under way.
Idle ==
    /\ station_data = "none"
    /\ EE_AVAILABLE = FALSE
    /\ NothingLate
    /\ selected_location = "Muweilah"
    /\ show_24h = FALSE
    /\ use_adaptive = TRUE
    /\ forecast_var = 3
    /\ radii = DefaultRadii
    /\ r_idx = 0
    /\ resp = NoResp
    /\ reqs = <<>>
    /\ res = Null
    /\ used_radius = Null
    /\ parsed_measures = <<>>
    /\ source_type = "None"
    /\ polls = NoPolls
    /\ live_flags = NoFlags

pass_vars == <<env_vars, ui_vars, fetch_vars, result_vars, reading_vars, late_vars>>

InitAqi ==
    /\ Idle
    /\ pc = "pm25_to_aqi"
    /\ fn_in \in AqiGrid \X AqiGrid
    /\ fn_out = NoCall

\* pm25_to_aqi applied to both arguments.
CallPm25ToAqi ==
    /\ pc = "pm25_to_aqi"
    /\ fn_out' = <<pm25_to_aqi(Num(fn_in[1])), pm25_to_aqi(Num(fn_in[2]))>>
    /\ pc' = "returned"
    /\ UNCHANGED <<fn_in, pass_vars>>

SpecAqi == InitAqi /\ [][CallPm25ToAqi]_vars

\* C8 (as claimed): for concentrations in [0, 500.4], pm25_to_aqi gives an
\* integer in [0, 500] and never decreases as the concentration grows.
C8_Claim ==
    (pc = "returned" /\ (\A i \in {1, 2} : 0 <= fn_in[i] /\ fn_in[i] <= 50040))
    => /\ \A i \in {1, 2} : fn_out[i].t = "num" /\ fn_out[i].v \in 0..500
       /\ (fn_in[1] <= fn_in[2] => fn_out[1].v <= fn_out[2].v)

\* C9: at both edges of every band pm25_to_aqi gives the index of the table;
\* 12.0 gives 50 and 12.1 gives 51.
C9_BandEdges ==
    pc = "returned" =>
        /\ \A k \in DOMAIN EPA_BP :
              /\ (fn_in[1] = EPA_BP[k][1] => fn_out[1] = Num(EPA_BP[k][3]))
              /\ (fn_in[1] = EPA_BP[k][2] => fn_out[1] = Num(EPA_BP[k][4]))
        /\ (fn_in[1] = 1200 => fn_out[1] = Num(50))
        /\ (fn_in[1] = 1210 => fn_out[1] = Num(51))

\* C9 witness: the converter has been applied to 12.0 and to 12.1.
C9_Witness ==
    pc = "returned" /\ fn_in = <<1200, 1210>> /\ fn_out = <<Num(50), Num(51)>>

\* The resolver and the completion with everything the station API may hold;
\* the widgets and services that only the later blocks read are left alone.
InitReading == Start /\ station_data = "full" /\ ~show_24h /\ ~EE_AVAILABLE

\* Resolver and completion, app.py 357-413.
NextReading ==
    \/ SendLatest
    \/ RecvLatest
    \/ SendMeas
    \/ RecvMeas
    \/ Complete

SpecReading == InitReading /\ [][NextReading]_vars

(***************************************************************************)
(* Properties of the resolver (SpecReading)                                *)
(***************************************************************************)
\* A result of a latest response that has a non-empty measurement list.
HasMeasurements(e) == e.kind = "object" /\ e.measurements # <<>>

\* The latest response r contains a result with a non-empty measurement list.
ContainsMeasurements(r) ==
    r.status = "ok" /\ \E i \in DOMAIN r.results : HasMeasurements(r.results[i])

\* The latest response r can be read up to such a result without an exception:
\* every result before it is an object without measurements, and every element
\* of its measurement list is an object.
ReadableMeasurements(r) ==
    /\ r.status = "ok"
    /\ \E i \in DOMAIN r.results :
          /\ HasMeasurements(r.results[i])
          /\ \A k \in DOMAIN r.results[i].measurements : r.results[i].measurements[k] = "object"
          /\ \A j \in 1..(i - 1) : r.results[j].kind = "object" /\ r.results[j].measurements = <<>>

\* Every radius has been asked on the latest endpoint.
LatestSweepDone == \A i \in DOMAIN radii : \E n \in DOMAIN reqs : reqs[n] = <<"latest", radii[i]>>

\* C3 (as claimed): a latest response that contains a result with a non-empty
\* measurement list makes the resolver return mode "latest".
C3_Claim ==
    [][(pc = "latest_resp" /\ ContainsMeasurements(resp))
          => (pc' = "complete" /\ source_type' = "latest")]_vars

\* C3 (amended): a latest response that can be read without an exception up
\* to a result with a non-empty measurement list makes the resolver return mode
\* "latest" at once, and mode "pseudo" is returned only after the latest
\* endpoint has been asked for every radius.
C3_LatestPreferred ==
    /\ [][(pc = "latest_resp" /\ ReadableMeasurements(resp))
             => (pc' = "complete" /\ source_type' = "latest")]_vars
    /\ [](source_type = "pseudo" => LatestSweepDone)

\* C3 witness: mode "latest" was returned for a radius after the first.
C3_Witness ==
    pc = "complete" /\ source_type = "latest" /\ Len(reqs) >= 2

\* The response in hand is a failure of its radius: no response, a body that
\* is not JSON, or a payload that raises while it is read.
FailedLatest(r) ==
    \/ r = NoResp
    \/ r.status = "not_json"
    \/ r.status = "ok" /\ ~ReadableMeasurements(r)
                       /\ \E i \in DOMAIN r.results :
                             r.results[i].kind # "object" \/ r.results[i].measurements # <<>>
FailedMeas(r) ==
    \/ r = NoResp
    \/ r.status = "not_json"
    \/ r.status = "ok" /\ \E i \in DOMAIN r.results : r.results[i].kind # "object"

\* C4: a failed radius does not end its sweep: the next radius of the same
\* sweep is asked (after the last radius of the latest sweep, the first of the
\* historical sweep), and readable data at the radius then asked is returned.
C4_SweepGoesOn ==
    [][/\ (pc = "latest_resp" /\ FailedLatest(resp))
             => IF r_idx < Len(radii)
                THEN pc' = "latest" /\ r_idx' = r_idx + 1
                ELSE pc' = "meas" /\ r_idx' = 1
       /\ (pc = "meas_resp" /\ FailedMeas(resp) /\ r_idx < Len(radii))
             => (pc' = "meas" /\ r_idx' = r_idx + 1)
       /\ (pc = "latest" => reqs' = Append(reqs, <<"latest", radii[r_idx]>>))
       /\ (pc = "meas" => reqs' = Append(reqs, <<"measurements", radii[r_idx]>>))
       /\ (pc = "latest_resp" /\ ReadableMeasurements(resp))
             => (source_type' = "latest" /\ used_radius' = Num(radii[r_idx]))
       /\ (pc = "meas_resp" /\ resp # NoResp /\ ~FailedMeas(resp) /\ resp.results # <<>>)
             => (source_type' = "pseudo" /\ used_radius' = Num(radii[r_idx]))]_vars

\* C4 witness: a failure is in hand for a radius that is not the last of its
\* sweep, after an earlier radius had been asked.
C4_Witness ==
    /\ pc = "meas_resp" /\ FailedMeas(resp)
    /\ 1 < r_idx /\ r_idx < Len(radii)

(***************************************************************************)
(* Properties of the completion (SpecReading)                              *)
(***************************************************************************)
\* The completion block (lines 359-413) has run.
Completed == pc = "weather"

AllNumeric == \A k \in Keys : polls[k].t = "num"

\* Measurement i of parsed_measures is one for key k that carries a value.
Supplies(i, k) ==
    /\ normalize_label(parsed_measures[i].parameter) = KeyChars[k]
    /\ parsed_measures[i].value.t # "null"

\* C1 (as claimed): after completion every one of the six keys holds a number,
\* whatever the measurement list and the mode.
C1_Claim == Completed => AllNumeric

\* C5: when both sweeps of the resolver went through every radius without
\* data, completion still gives six numbers, and no key is live.
C5_EmptyResolver ==
    (Completed /\ source_type = "None")
        => (AllNumeric /\ \A k \in Keys : ~live_flags[k])

\* C5 witness: completion has run after 2 x |radii| requests without data.
C5_Witness ==
    /\ Completed /\ source_type = "None" /\ parsed_measures = <<>>
    /\ Len(reqs) = 2 * Len(radii)

\* C6 (as claimed): in mode "pseudo" the key of a measurement whose timestamp
\* is exactly 48.0 hours old is live, and that of one 48.01 hours old is not.
C6_Claim ==
    (Completed /\ source_type = "pseudo") =>
        \A i \in DOMAIN parsed_measures : \A k \in Keys :
            (/\ Supplies(i, k)
             /\ \A j \in (i + 1)..Len(parsed_measures) : ~Supplies(j, k)
             /\ parsed_measures[i].lastUpdated.t = "time")
            => /\ (parsed_measures[i].lastUpdated.age = 4800 => live_flags[k])
               /\ (parsed_measures[i].lastUpdated.age = 4801 => ~live_flags[k])

\* C7: in mode "latest" a key is live exactly when a measurement supplied a
\* value for it; a key filled by a derivation rule is not live, also when the
\* value it was derived from is.
C7_LiveExactlySupplied ==
    (Completed /\ source_type = "latest") =>
        \A k \in Keys :
            live_flags[k] <=> \E i \in DOMAIN parsed_measures : Supplies(i, k)

\* C7 witness: PM10 was supplied and is live, PM2.5 was derived from it
\* (0.6 x 40.5 = 24.3) and is not.
C7_Witness ==
    /\ Completed /\ source_type = "latest"
    /\ live_flags["pm10"] /\ ~live_flags["pm25"]
    /\ polls["pm10"] = Num(4050) /\ polls["pm25"] = Num(2430)

(***************************************************************************)
(* Properties of one render pass (Spec)                                    *)
(***************************************************************************)
\* The pass has ended on an exception that nothing catches.
Crashed == pc = "crashed"

\* The pass has run to its end.
Rendered == pc = "done"

\* C2 (as claimed): whatever the station, weather and satellite calls give,
\* the pass never ends on an uncaught exception, and at its end PM2.5 and the
\* AQI are numbers.
C2_Claim ==
    /\ ~Crashed
    /\ Rendered => (polls["pm25"].t = "num" /\ aqi_now.t = "num")

\* The satellite step (lines 427-431) has handed its proxy on.
ProxyHanded == pc \in {"aqi", "history", "forecast", "done"}

\* C10: the proxy handed on is a number in [0.03, 1.0] on each of the three
\* paths: column / 1e16 clamped (1.0 for a column of 2e16), the aerosol depth
\* clamped, PM2.5 / 150 clamped.
C10_ProxyInRange ==
    ProxyHanded =>
        /\ aod_val.t = "num" /\ 30 <= aod_val.v /\ aod_val.v <= 1000
        /\ (aod_source.tag = "TEMPO_NO2" /\ aod_source.raw = Num(200)) => aod_val = Num(1000)
        /\ (aod_source.tag = "TEMPO_NO2" /\ aod_source.raw = Num(-10)) => aod_val = Num(30)
        /\ (aod_source.tag = "MODIS_AOD" /\ aod_source.raw = Num(2000)) => aod_val = Num(1000)
        /\ (aod_source.tag = "MODIS_AOD" /\ aod_source.raw = Num(500)) => aod_val = Num(500)
        /\ (aod_source.tag = "PM2.5_proxy" /\ polls["pm25"] = Num(-250)) => aod_val = Num(30)
        /\ (aod_source.tag = "PM2.5_proxy" /\ polls["pm25"] = Num(25050)) => aod_val = Num(1000)

\* C10 witness: a column of 2e16 was converted and its proxy, 1.0, handed on.
C10_Witness ==
    /\ ProxyHanded
    /\ aod_source = [tag |-> "TEMPO_NO2", raw |-> Num(200)]
    /\ aod_val = Num(1000)

\* The satellite step has run, to its end or into the exception of line 429.
SatelliteDone == pc \in {"aqi", "history", "forecast", "done", "crashed"}

\* One of the queries made gave a value.
Produced == \E i \in DOMAIN ee_calls : ee_calls[i].got # Null

ForecastPms == {Num(-250), Num(5), Num(3550), Num(25050)}

\* The histories tried: none, three samples, five negative samples, six rising
\* ones, six falling ones (the projection runs below the floor), six that end
\* on a negative sample.
ForecastHists ==
    { <<>>,
      <<1000, 1100, 1200>>,
      <<-500, -400, -300, -200, -100>>,
      <<1000, 1100, 1200, 1300, 1400, 1500>>,
      <<6000, 5000, 4000, 3000, 2000, 1000>>,
      <<500, 400, 300, 200, 100, -100>> }

\* Line 313: positions of the variance slider tried in the side-by-side runs.
SliderPositions == {1, 3, 8}

\* What one invocation of lines 456-462 reads.
Invocations == [pm25 : ForecastPms, hist : ForecastHists, variance : SliderPositions]

InitForecast ==
    /\ Idle
    /\ pc = "forecast_calls"
    /\ fn_in \in Invocations \X Invocations
    /\ fn_out = NoCall

\* Lines 456-462 run once for each of the two invocations.
CallForecast ==
    /\ pc = "forecast_calls"
    /\ \E z1 \in DrawsFor(fn_in[1].hist), z2 \in DrawsFor(fn_in[2].hist) :
          fn_out' = <<RunForecast(fn_in[1].hist, fn_in[1].pm25, fn_in[1].variance, z1),
                      RunForecast(fn_in[2].hist, fn_in[2].pm25, fn_in[2].variance, z2)>>
    /\ pc' = "forecast_returned"
    /\ UNCHANGED <<fn_in, pass_vars>>

SpecForecast == InitForecast /\ [][CallForecast]_vars

\* Both invocations have fewer than six samples and the same current PM2.5.
ShortSamePm ==
    /\ pc = "forecast_returned"
    /\ Len(fn_in[1].hist) < 6 /\ Len(fn_in[2].hist) < 6
    /\ fn_in[1].pm25 = fn_in[2].pm25

\* C12 (as claimed): with fewer than six samples, two invocations with the
\* same current PM2.5 give the same series whatever their other inputs.
C12_Claim == ShortSamePm => fn_out[1] = fn_out[2]

\* C12 (amended): with fewer than six samples, two invocations with the same
\* current PM2.5 and the same variance setting give the same 24 values,
\* whatever their histories.
C12_SameVariance ==
    (ShortSamePm /\ fn_in[1].variance = fn_in[2].variance) =>
        /\ fn_out[1] = fn_out[2]
        /\ fn_out[1].what = "ok" /\ Len(fn_out[1].pm24) = 24

\* C12 witness: PM2.5 35.5 at slider position 3, once with no history and
\* once with three samples, gave the same series.
C12_Witness ==
    /\ ShortSamePm
    /\ fn_in[1] = [pm25 |-> Num(3550), hist |-> <<>>, variance |-> 3]
    /\ fn_in[2] = [pm25 |-> Num(3550), hist |-> <<1000, 1100, 1200>>, variance |-> 3]
    /\ fn_out[1] = fn_out[2] /\ Len(fn_out[1].pm24) = 24

(***************************************************************************)
(* Properties of one render pass, continued (Spec)                         *)
(***************************************************************************)
\* The AQI step (lines 434-439) has run.
AqiDone == pc \in {"history", "forecast", "done"}

\* The pass found no station data at any radius and no Earth Engine.
NothingUpstream ==
    /\ selected_location = "Muweilah"
    /\ source_type = "None" /\ parsed_measures = <<>>
    /\ ~EE_AVAILABLE

\* C13: for (25.358, 55.478) with no station data at any radius and no
\* satellite backend, PM2.5 is the baseline 5 + |sin(25.358 / 12)| x 10 = 13.6,
\* the AQI is pm25_to_aqi of it (54), the satellite label is "PM2.5_proxy" and
\* no key is live.
C13_EndToEnd ==
    (AqiDone /\ NothingUpstream) =>
        /\ polls["pm25"] = GeoBaseline("Muweilah", 10)
        /\ polls["pm25"] = Num(1360)
        /\ aqi_now = pm25_to_aqi(polls["pm25"]) /\ aqi_now = Num(54)
        /\ aod_source = [tag |-> "PM2.5_proxy"]
        /\ \A k \in Keys : ~live_flags[k]

\* C13 witness: such a pass has run to its end, after both sweeps.
C13_Witness ==
    /\ pc = "done" /\ NothingUpstream
    /\ Len(reqs) = 2 * Len(radii) /\ Len(radii) = NumRadii
    /\ polls["pm25"] = Num(1360) /\ aqi_now = Num(54)

(***************************************************************************)
(* Properties of the resolver, continued (SpecReading)                     *)
(***************************************************************************)
\* A latest response without data: a failure, an empty result list, or
\* results that all have no measurements.
NoDataLatest(r) ==
    \/ FailedLatest(r)
    \/ r.status = "ok" /\ \A i \in DOMAIN r.results :
                            r.results[i].kind = "object" /\ r.results[i].measurements = <<>>

\* A response of the measurements endpoint without data: a failure or an
\* empty result list.
NoDataMeas(r) == FailedMeas(r) \/ (r.status = "ok" /\ r.results = <<>>)

\* Nothing has been returned: the raw result and the radius are absent, the
\* measurement list is empty, the mode is absent.
EmptyResult ==
    res = Null /\ used_radius = Null /\ parsed_measures = <<>> /\ source_type = "None"

\* Both sweeps have asked every radius, in order.
BothSweepsDone ==
    /\ Len(reqs) = 2 * Len(radii)
    /\ \A i \in DOMAIN radii :
          /\ reqs[i] = <<"latest", radii[i]>>
          /\ reqs[Len(radii) + i] = <<"measurements", radii[i]>>

\* C14: a response without data never makes the resolver return anything but
\* the empty result, and it returns the empty result (nothing, no radius, an
\* empty list, no mode) when the last radius of the historical sweep has no
\* data either, after both sweeps asked every radius.
C14_EmptyResult ==
    /\ [][/\ (pc = "latest_resp" /\ NoDataLatest(resp))
                => (pc' \in {"latest", "meas"} /\ EmptyResult')
          /\ (pc = "meas_resp" /\ NoDataMeas(resp))
                => /\ EmptyResult'
                   /\ pc' = IF r_idx < Len(radii) THEN "meas" ELSE "complete"]_vars
    /\ []((pc = "complete" /\ source_type = "None") => (EmptyResult /\ BothSweepsDone))

\* C14 witness: the resolver has returned the empty result after asking every
\* radius of the default sequence on both endpoints.
C14_Witness ==
    /\ pc = "complete" /\ EmptyResult /\ BothSweepsDone
    /\ radii = DefaultRadii

(***************************************************************************)
(* normalize_label on its own                                              *)
(***************************************************************************)
MaxLabelLen == 3    \* characters in a label

\* The characters labels are made of: upper and lower case letters, a digit,
\* a subscript glyph, punctuation, a blank, and the Kelvin sign U+212A.
LabelChars == {"N", "O", "o", "5", "₂", ".", " ", "kelvin-sign"}

\* The labels tried: None and every string of up to MaxLabelLen characters.
Labels == {Null} \cup {Str(cs) : cs \in UNION {[1..n -> LabelChars] : n \in 0..MaxLabelLen}}

InitLabel ==
    /\ Idle
    /\ pc = "normalize_label"
    /\ fn_in \in {<<lbl>> : lbl \in Labels}
    /\ fn_out = NoCall

\* normalize_label applied to the label, and again to its own result.
CallNormalizeLabel ==
    /\ pc = "normalize_label"
    /\ fn_out' = <<normalize_label(fn_in[1]), normalize_label(Str(normalize_label(fn_in[1])))>>
    /\ pc' = "normalized"
    /\ UNCHANGED <<fn_in, pass_vars>>

SpecLabel == InitLabel /\ [][CallNormalizeLabel]_vars

\* C15: normalize_label applied to its own result changes nothing, and the
\* result holds only the characters a-z and 0-9.
C15_Idempotent ==
    pc = "normalized" =>
        /\ fn_out[2] = fn_out[1]
        /\ \A i \in DOMAIN fn_out[1] :
              fn_out[1][i] \in Range(LowerCase) \cup Range(Digits)

\* C15 witness: "N", a dot and a subscript two became "n2", twice.
C15_Witness ==
    /\ pc = "normalized"
    /\ fn_in = <<Str(<<"N", ".", "₂">>)>>
    /\ fn_out = <<(<<"n", "2">>), (<<"n", "2">>)>>

(***************************************************************************)
(* Properties of the forecast, continued (SpecForecast)                    *)
(***************************************************************************)
\* C16 (as claimed): for a numeric PM2.5 and any list of numeric samples, the
\* negative ones included, a forecast that is asked for has exactly 24 values,
\* each at least 0.1.
C16_Claim ==
    pc = "forecast_returned" =>
        \A n \in {1, 2} :
            /\ fn_out[n].what = "ok"
            /\ Len(fn_out[n].pm24) = 24
            /\ \A i \in DOMAIN fn_out[n].pm24 : fn_out[n].pm24[i] >= 10

(***************************************************************************)
(* Properties of the completion, continued (SpecReading)                   *)
(***************************************************************************)
\* Some measurement supplied a value for key k.
Supplied(k) == \E i \in DOMAIN parsed_measures : Supplies(i, k)

\* C17 (as claimed): when no measurement supplies PM2.5 it is 0.6 x PM10,
\* rounded to one decimal, if PM10 was supplied as a number, and otherwise,
\* PM10 absent or not a number alike, the baseline 5 + |sin(lat / 12)| x 10.
C17_Claim ==
    (Completed /\ ~Supplied("pm25")) =>
        IF Supplied("pm10") /\ polls["pm10"].t = "num"
        THEN polls["pm25"] = Num(10 * RoundHalfEven(polls["pm10"].v * 6, 100))
        ELSE polls["pm25"] = GeoBaseline(selected_location, 10)

\* The value the last measurement for key k supplied, as line 373 or 375
\* stored it.
LastSupplied(k) ==
    LET last == CHOOSE i \in DOMAIN parsed_measures :
                    /\ Supplies(i, k)
                    /\ \A j \in (i + 1)..Len(parsed_measures) : ~Supplies(j, k)
        val == parsed_measures[last].value
    IN  IF float(val).ok THEN Num(float(val).v) ELSE val

\* v (hundredths) is max(0.1, pm25 x m) rounded to one decimal for some
\* multiplier m between 0.6 and 1.4 (hundredths).
DerivedFrom(v, pm25) ==
    \E m \in 60..140 :
        v = 10 * RoundHalfEven(IF pm25 * m < 1000 THEN 1000 ELSE pm25 * m, 1000)

\* C18 (as claimed): every key other than PM2.5 that no measurement supplied
\* holds max(0.1, pm25 x m), rounded to one decimal, for some m in [0.6, 1.4]:
\* a number of at least 0.1 and, for pm25 > 0, at most 1.4 x pm25; a key that a
\* measurement supplied holds what was supplied.
C18_Claim ==
    Completed =>
        \A k \in OtherKeys :
            IF Supplied(k) THEN polls[k] = LastSupplied(k)
            ELSE /\ polls[k].t = "num" /\ polls[k].v >= 10
                 /\ polls["pm25"].t = "num"
                 /\ DerivedFrom(polls[k].v, polls["pm25"].v)
                 /\ polls["pm25"].v > 0 => 100 * polls[k].v <= 140 * polls["pm25"].v

(***************************************************************************)
(* Properties of the historical sweep (SpecReading)                        *)
(***************************************************************************)
\* The response in hand holds records, all of them objects.
HoldsRecords(r) ==
    /\ r # NoResp /\ r.status = "ok" /\ r.results # <<>>
    /\ \A i \in DOMAIN r.results : r.results[i].kind = "object"

\* The sum of recs[i].value.v over the indices in S.
RECURSIVE SumOver(_, _)
SumOver(S, recs) ==
    IF S = {} THEN 0
    ELSE LET i == CHOOSE x \in S : TRUE
         IN  recs[i].value.v + SumOver(S \ {i}, recs)

\* The most recent timestamp among the records with indices in S, Null when
\* none has one.
MostRecent(S, recs) ==
    LET stamped == {i \in S : Truthy(MeasureTime(recs[i]))}
    IN  IF stamped = {} THEN Null
        ELSE MeasureTime(recs[CHOOSE i \in stamped :
                                 \A j \in stamped : MeasureTime(recs[i]).age <= MeasureTime(recs[j]).age])

\* out is the aggregate of the records recs for station st: one entry for
\* each parameter with numeric values at st, holding the mean of exactly those
\* values (to two decimals) and the most recent of their timestamps.
AggregateOf(out, recs, st) ==
    LET own == {i \in DOMAIN recs : recs[i].location = st}
        numeric(p) == {i \in own : recs[i].parameter = p /\ recs[i].value.t = "num"}
        params == {recs[i].parameter : i \in {j \in own : recs[j].value.t = "num"}}
    IN  /\ {out[n].parameter : n \in DOMAIN out} = params
        /\ Len(out) = Cardinality(params)
        /\ \A n \in DOMAIN out :
              LET S == numeric(out[n].parameter)
              IN  /\ out[n].value = Num(RoundHalfEven(SumOver(S, recs), Cardinality(S)))
                  /\ out[n].lastUpdated = MostRecent(S, recs)

FirstWithMeasurements(r) ==
    r.results[CHOOSE i \in DOMAIN r.results :
                 /\ HasMeasurements(r.results[i])
                 /\ \A j \in 1..(i - 1) : ~HasMeasurements(r.results[j])]

\* The requests made are those of the latest sweep up to radius number k.
AskedLatestUpTo(k) ==
    /\ Len(reqs) = k
    /\ \A i \in 1..k : reqs[i] = <<"latest", radii[i]>>

\* C20: in the latest sweep the resolver moves past a radius only when its
\* response failed or held no result with measurements; at the first radius
\* whose response can be read up to such a result it returns that radius and
\* the measurements of the first such result, one parsed entry per
\* measurement; and in mode "latest" the radius returned is the last one
\* asked, no request following it.
C20_FirstRadius ==
    /\ [][pc = "latest_resp" =>
             IF resp # NoResp /\ ReadableMeasurements(resp)
             THEN /\ pc' = "complete" /\ source_type' = "latest"
                  /\ used_radius' = Num(radii[r_idx])
                  /\ reqs' = reqs
                  /\ Len(res'.measurements) = Len(FirstWithMeasurements(resp).measurements)
                  /\ Len(parsed_measures') = Len(res'.measurements)
                  /\ \A i \in DOMAIN parsed_measures' :
                        /\ parsed_measures'[i].parameter = res'.measurements[i].parameter
                        /\ parsed_measures'[i].value = res'.measurements[i].value
             ELSE /\ NoDataLatest(resp)
                  /\ source_type' = "None" /\ used_radius' = Null
                  /\ pc' \in {"latest", "meas"}]_vars
    /\ [](source_type = "latest" =>
             \E k \in DOMAIN radii : used_radius = Num(radii[k]) /\ AskedLatestUpTo(k))

\* C20 witness: the first radius gave nothing, the second gave a result with
\* two measurements, and the resolver returned it without a third request.
C20_Witness ==
    /\ pc = "complete" /\ source_type = "latest"
    /\ Len(radii) >= 3 /\ used_radius = Num(radii[2]) /\ AskedLatestUpTo(2)
    /\ Len(parsed_measures) = 2

(***************************************************************************)
(* Properties of what the resolver returns (SpecReading)                   *)
(***************************************************************************)
\* fetch_openaq_adaptive has returned.
Returned == pc = "complete"

\* C21 (as claimed): a mode that is not absent comes with a non-empty
\* measurement list, and an empty list comes only with the mode absent, also
\* when the chosen station has only non-numeric values.
C21_Claim ==
    Returned =>
        /\ source_type \in {"latest", "pseudo"} => parsed_measures # <<>>
        /\ parsed_measures = <<>> => source_type = "None"

(***************************************************************************)
(* The resolver alone, run until it returns.  Its steps are statements of  *)
(* one sequential function: a request comes back within its timeout        *)
(* (safe_get, timeout=8) and the interpreter goes on to the next           *)
(* statement, so a step that can be taken is taken.                        *)
(***************************************************************************)

\* The order of the requests depends on a response only through whether it
\* yields data, so the lean station data is enough here.
InitResolver == Start /\ station_data = "lean" /\ ~show_24h /\ ~EE_AVAILABLE

NextResolver ==
    \/ SendLatest
    \/ RecvLatest
    \/ SendMeas
    \/ RecvMeas

SpecResolver == InitResolver /\ [][NextResolver]_vars /\ WF_vars(NextResolver)

\* The requests of both sweeps in the order of the code: the latest endpoint
\* for every radius, then the measurements endpoint for every radius.
AllRequests ==
    [i \in 1..(2 * Len(radii)) |->
        IF i <= Len(radii) THEN <<"latest", radii[i]>>
        ELSE <<"measurements", radii[i - Len(radii)]>>]

\* C22: the requests made are at all times the first ones of AllRequests
\* (every radius once and in order on the latest endpoint before any request
\* to the measurements endpoint, 2 x |radii| at most); a request to the
\* measurements endpoint is made only while the latest sweep gave nothing; no
\* request follows a success; and the resolver returns in the end.
C22_RequestOrder ==
    /\ [](/\ Len(reqs) <= 2 * Len(radii)
          /\ reqs = SubSeq(AllRequests, 1, Len(reqs))
          /\ Len(reqs) > Len(radii) => source_type # "latest")
    /\ [][/\ source_type # "None" => reqs' = reqs
          /\ reqs' # reqs => (source_type = "None" /\ Len(reqs') = Len(reqs) + 1)]_vars
    /\ <>Returned

\* C22 witness: the resolver returned in mode "pseudo" on the last request of
\* the second sweep, 2 x |radii| requests in all for the default radii.
C22_Witness ==
    /\ Returned /\ source_type = "pseudo"
    /\ radii = DefaultRadii /\ reqs = AllRequests

(***************************************************************************)
(* Determinism of the headline outputs (Spec)                              *)
(***************************************************************************)
\* The reading of a pass with the same coordinate and the same resolver
\* result in which every draw of line 409 is the lowest one.
OtherPass ==
    FallbackOthers(ResolveReading(parsed_measures, source_type, selected_location),
                   [k \in OtherKeys |-> 60])

\* Lines 427-431 for the upstream answers to and mo and the PM2.5 value pm25.
SatelliteOf(to, mo, pm25) ==
    LET sat == fetch_satellite_proxy(EE_AVAILABLE, to, mo)
    IN  IF sat.val # Null THEN [val |-> sat.val, source |-> sat.source, calls |-> sat.calls]
        ELSE IF float(pm25).ok
        THEN [val |-> Pm25Proxy(float(pm25).v),
              source |-> IF sat.source.tag = "DEMO_FALLBACK"
                         THEN [tag |-> "PM2.5_proxy"] ELSE sat.source,
              calls |-> sat.calls]
        ELSE [val |-> Null, source |-> sat.source, calls |-> sat.calls]

ReadingDone == pc \in {"weather", "satellite", "aqi", "history", "forecast", "done", "crashed"}
ProxyDone == pc \in {"aqi", "history", "forecast", "done", "crashed"}
AqiComputed == pc \in {"history", "forecast", "done"}

\* C23: whatever the draws of line 409 were, the PM2.5 value and the six
\* flags of a pass are those of the other pass on the same resolver result,
\* and a value that differs from the other pass's is that of another
\* pollutant that no measurement supplied; the AQI is the AQI of the other
\* pass's PM2.5; and the proxy value and label are those that any upstream
\* answers giving the same query results yield with the other pass's PM2.5.
C23_Deterministic ==
    /\ ReadingDone =>
          /\ polls["pm25"] = OtherPass.polls["pm25"]
          /\ live_flags = OtherPass.live_flags
          /\ \A k \in Keys : polls[k] # OtherPass.polls[k] => (k # "pm25" /\ ~Supplied(k))
    /\ ProxyDone =>
          \A to \in TempoOutcomes, mo \in ModisOutcomes :
              LET other == SatelliteOf(to, mo, OtherPass.polls["pm25"])
              IN  other.calls = ee_calls => (aod_val = other.val /\ aod_source = other.source)
    /\ AqiComputed => aqi_now = AqiNow(OtherPass.polls["pm25"])

\* C23 witness: a finished pass in which a draw gave a value that differs from
\* the other pass's, with the proxy taken from PM2.5.
C23_Witness ==
    /\ Rendered
    /\ aod_source.tag = "PM2.5_proxy"
    /\ \E k \in OtherKeys : polls[k] # OtherPass.polls[k]

====
